---- MODULE Spec2Model ----
(***************************************************************************)
(* Bank account transaction engine: Account (src/main.py) working against  *)
(* the DataBase ledger store (src/database.py).                            *)
(*                                                                         *)
(* Units.  Python Decimal values are modelled as exact integers:           *)
(*   - raw amounts handed to the program are in mills (1/1000),            *)
(*   - quantized values (balance, scaled amounts, interest) are in cents,  *)
(*   - interest rates are in 1/1000 (50 is Decimal('0.05')).               *)
(***************************************************************************)
EXTENDS Integers, Sequences, FiniteSets, TLC

VARIABLES
  metadata,               \* metadata table: key -> value, a row exists iff its key is in DOMAIN
  transactions_table,     \* transactions table: the rows inserted by add_transaction
  clock,                  \* datetime.now(timezone.utc): a logical instant, later at every call
  exists,                 \* exists[a]: Account a has been constructed
  balance,                \* balance[a]: Account._balance, in cents
  transactions,           \* transactions[a]: Account._transactions, the session list
  monthly_interest_rate,  \* Account.monthly_interest_rate, the class attribute
  drawn,                  \* the ids returned by load_transaction_id to the operations, in call order
  last,                   \* the most recent call: its input, what it did and how it ended
  has_transactions_table, \* the transactions table has been created in the store
  gen,                    \* the generator object the latest get_transactions_by_type call returned
  loaded,                 \* loaded[c]: the id caller c holds between its load and its save, if any
  fraction_digits         \* fraction_digits[a]: the fraction digits of Account._balance (minus its exponent)

queryVars == <<has_transactions_table, gen>>

vars == <<metadata, transactions_table, clock, exists, balance,
          transactions, monthly_interest_rate, drawn, last,
          has_transactions_table, gen, loaded, fraction_digits>>

(***************************************************************************)
(* Bounds of the model.                                                    *)
(***************************************************************************)
MaxId == 2
MaxBalance == 60

(***************************************************************************)
(* Program constants.                                                      *)
(***************************************************************************)
DefaultMonthlyInterestRate == 50

AccountNumbers == {"acc1", "acc2"}

\* Raw numeric inputs, in mills: negatives, zero, values below one cent,
\* halfway cases (-15, 5, 15, 205) and whole cents.
AmountMills == {-15, -4, 0, 5, 15, 104, 205, 500}

\* Inputs that are not decimal numbers, by what Decimal() does with them.
TextKinds == {"text", "empty"}
UnsupportedKinds == {"none", "dict", "set"}
SequenceKinds == {"tuple", "list"}
NonNumericKinds == TextKinds \cup UnsupportedKinds \cup SequenceKinds

Num(m) == [kind |-> "num", mills |-> m]
Other(k) == [kind |-> k, mills |-> 0]
NoArg == Other("-")

Inputs == {Num(m) : m \in AmountMills}
            \cup {Other(k) : k \in NonNumericKinds \cup {"nan"}}

\* Starting balances handed to the constructor.
StartInputs == {Num(m) : m \in {-15, -4, 205}}
                 \cup {Other("text"), Other("none"), Other("nan")}

\* Rates a caller of the store saves, in 1/1000.
RateValues == {0, 400}

(***************************************************************************)
(* Decimal arithmetic.                                                     *)
(***************************************************************************)
\* n/d rounded to an integer, ties to the higher neighbour (ROUND_HALF_UP on
\* the non-negative values it is used for here).
RoundHalfUp(n, d) ==
  LET q == n \div d
      r == n % d
  IN  IF 2 * r < d THEN q ELSE q + 1

\* n/d rounded to an integer, ties to the even neighbour: the rounding of
\* the default decimal context (ROUND_HALF_EVEN), which quantize() applies.
RoundHalfEven(n, d) ==
  LET q == n \div d
      r == n % d
  IN  IF 2 * r < d THEN q
      ELSE IF 2 * r > d THEN q + 1
      ELSE IF q % 2 = 0 THEN q ELSE q + 1

\* Decimal(x).quantize(Decimal('.01')) of a value in mills, in cents.
quantize(mills) == RoundHalfEven(mills, 10)

\* The digits given to quantize: Decimal('.01').
QuantizeDigits == 2

\* The fraction digits of the numbers handed in: they are written in mills.
InputDigits == 3

\* A value that is used as it came, with the fraction digits it had.
digits_of_quantized_Kept(digits) == digits

\* The fraction digits of x.quantize(Decimal('.01')), whatever x had.
digits_of_quantized(digits) == QuantizeDigits

\* The fraction digits of a sum or difference of two Decimals: the exponent
\* of the result is the lower of the two.
digits_of_sum(d1, d2) == IF d1 > d2 THEN d1 ELSE d2

\* The fraction digits of a product of two Decimals: the exponents add.
digits_of_product(d1, d2) == d1 + d2

\* A conversion that raises for nothing: what is not a number counts as 0.
DecimalOf_NeverRaises(arg) == "ok"

\* Decimal(amount): the value, or the exception the conversion raises.
\* 'NaN' converts, to the quiet NaN.
DecimalOf(arg) ==
  CASE arg.kind \in {"num", "nan"} -> "ok"
    [] arg.kind \in TextKinds -> "InvalidOperation"
    [] arg.kind \in UnsupportedKinds -> "TypeError"
    [] arg.kind \in SequenceKinds -> "ValueError"

\* Account.is_amount_a_number: "True", "False", or the exception that escapes
\* it (only InvalidOperation is caught).  Quantizing the quiet NaN gives NaN
\* and raises nothing.
is_amount_a_number(arg) ==
  LET d == DecimalOf(arg)
  IN  CASE d = "ok" -> "True"
        [] d = "InvalidOperation" -> "False"
        [] OTHER -> d

(***************************************************************************)
(* DataBase: the metadata table.                                           *)
(***************************************************************************)
Row(md, key, value) == [k \in DOMAIN md \cup {key} |-> IF k = key THEN value ELSE md[k]]

\* A save that is never committed: the table keeps what it held.
save_transaction_id_NotCommitted(md, transaction_id) == md

\* DataBase.save_transaction_id: UPDATE the row if it exists, else INSERT it.
save_transaction_id(md, transaction_id) == Row(md, "transaction_id", transaction_id)

\* A load that also advances the counter: the draw made in one step.
load_transaction_id_Atomic(md) ==
  IF "transaction_id" \in DOMAIN md
    THEN [id |-> md["transaction_id"],
          md |-> Row(md, "transaction_id", md["transaction_id"] + 1)]
    ELSE [id |-> 0, md |-> Row(md, "transaction_id", 1)]

\* DataBase.load_transaction_id: a store with no saved counter answers 0
\* and saves 1.
load_transaction_id(md) ==
  IF "transaction_id" \in DOMAIN md
    THEN [id |-> md["transaction_id"], md |-> md]
    ELSE [id |-> 0, md |-> save_transaction_id(md, 1)]

\* A rate that is never committed: the table keeps what it held.
save_monthly_interest_rate_NotCommitted(md, rate) == md

\* DataBase.save_monthly_interest_rate.
save_monthly_interest_rate(md, rate) == Row(md, "monthly_interest_rate", rate)

\* DataBase.load_monthly_interest_rate: a store with no saved rate answers
\* Decimal('0.05') and saves '0.05'.
load_monthly_interest_rate(md) ==
  IF "monthly_interest_rate" \in DOMAIN md
    THEN [rate |-> md["monthly_interest_rate"], md |-> md]
    ELSE [rate |-> DefaultMonthlyInterestRate,
          md |-> save_monthly_interest_rate(md, DefaultMonthlyInterestRate)]

\* The persisted counter as a reader sees it: 0 while no row holds it.
nextTransactionId(md) ==
  IF "transaction_id" \in DOMAIN md THEN md["transaction_id"] ELSE 0

(***************************************************************************)
(* Account: the steps of the operations.                                   *)
(***************************************************************************)
\* ConfirmationNumber(transaction_type, account_number, transaction_time, transaction_id)
ConfirmationNumber(type, account_number, time, id) ==
  [transaction_type |-> type, account_number |-> account_number,
   transaction_time |-> time, transaction_id |-> id]

\* The draw that no-increment code would make: the id is saved back unchanged.
DrawTransactionId_NoIncrement(md) ==
  LET l == load_transaction_id(md)
  IN  [id |-> l.id, saved |-> l.id, md |-> save_transaction_id(l.md, l.id)]

\* The first two statements of deposit, apply_interest and withdraw:
\* transaction_id = db.load_transaction_id(), then
\* db.save_transaction_id(transaction_id + 1).
DrawTransactionId(md) ==
  LET l == load_transaction_id(md)
  IN  [id |-> l.id, saved |-> l.id + 1, md |-> save_transaction_id(l.md, l.id + 1)]

\* deposit: "if amount < 0: amount = 0".
deposit_amount(amount) == IF amount < 0 THEN 0 ELSE amount

\* A withdraw that forgets to compare the amount with the balance.
withdraw_declines_NoBalanceCheck(amount, bal) == amount <= 0

\* A withdraw that also refuses an amount equal to the balance.
withdraw_declines_AtBalance(amount, bal) == amount <= 0 \/ amount >= bal

\* withdraw: the two rules checked on the quantized amount.
withdraw_declines(amount, bal) == amount <= 0 \/ amount > bal

\* apply_interest: (balance * monthly_interest_rate).quantize(Decimal(".01")).
\* The rate is the class attribute; the store is not asked for it.
interest(bal, rate) == RoundHalfEven(bal * rate, 1000)

\* What a call does once the id is drawn: how it ends, the balance it leaves,
\* the type its confirmation number ends with, and whether the confirmation
\* number was appended to the session list.
Result(outcome, bal, type, appended) ==
  [outcome |-> outcome, balance |-> bal, type |-> type, appended |-> appended]

deposit_result(bal, arg) ==
  LET v == is_amount_a_number(arg)
  IN  IF v = "False" THEN Result("TransactionDeclinedError", bal, "X", TRUE)
      ELSE IF v # "True" THEN Result(v, bal, "D", FALSE)
      ELSE IF arg.kind = "nan" THEN Result("InvalidOperation", bal, "D", FALSE)
      ELSE Result("returned", bal + deposit_amount(quantize(arg.mills)), "D", TRUE)

apply_interest_result(bal, rate) ==
  Result("returned", bal + interest(bal, rate), "I", TRUE)

\* A withdraw that checks its two rules on the amount as it was handed in,
\* and scales it only to subtract it.
withdraw_result_RulesOnRaw(bal, arg) ==
  LET v == is_amount_a_number(arg)
  IN  IF v = "False" THEN Result("TransactionDeclinedError", bal, "X", TRUE)
      ELSE IF v # "True" THEN Result(v, bal, "W", FALSE)
      ELSE IF arg.kind = "nan" THEN Result("InvalidOperation", bal, "W", FALSE)
      ELSE IF arg.mills <= 0 \/ arg.mills > bal * 10
             THEN Result("TransactionDeclinedError", bal, "X", TRUE)
      ELSE Result("returned", bal - quantize(arg.mills), "W", TRUE)

withdraw_result(bal, arg) ==
  LET v == is_amount_a_number(arg)
  IN  IF v = "False" THEN Result("TransactionDeclinedError", bal, "X", TRUE)
      ELSE IF v # "True" THEN Result(v, bal, "W", FALSE)
      ELSE IF arg.kind = "nan" THEN Result("InvalidOperation", bal, "W", FALSE)
      ELSE IF withdraw_declines(quantize(arg.mills), bal)
             THEN Result("TransactionDeclinedError", bal, "X", TRUE)
      ELSE Result("returned", bal - quantize(arg.mills), "W", TRUE)

\* Account.__init__: the balance the account starts with, or the exception.
init_result(arg) ==
  LET v == is_amount_a_number(arg)
  IN  IF v = "False" THEN Result("ValueError", 0, "-", FALSE)
      ELSE IF v # "True" THEN Result(v, 0, "-", FALSE)
      ELSE IF arg.kind = "nan" THEN Result("InvalidOperation", 0, "-", FALSE)
      ELSE IF quantize(arg.mills) < 0 THEN Result("ValueError", 0, "-", FALSE)
      ELSE Result("returned", quantize(arg.mills), "-", FALSE)

\* The fraction digits of the value a returned operation adds to or takes
\* from a balance of d digits: the quantized amount, the int 0 that deposit
\* puts in the place of a negative amount, the quantized interest (the
\* class rate Decimal('0.05') has 2 digits).
amount_digits(op, arg, d) ==
  CASE op = "deposit" ->
         IF quantize(arg.mills) < 0 THEN 0 ELSE digits_of_quantized(InputDigits)
    [] op = "withdraw" -> digits_of_quantized(InputDigits)
    [] op = "apply_interest" ->
         digits_of_quantized(digits_of_product(d, QuantizeDigits))

\* The fraction digits of the balance after an operation that ended as
\* outcome tells: only a returned operation assigns the balance.
balance_digits(op, arg, outcome, d) ==
  IF outcome = "returned" THEN digits_of_sum(d, amount_digits(op, arg, d)) ELSE d

Operations == {"deposit", "withdraw", "apply_interest"}

NoCall ==
  [op |-> "none", acct |-> "-", arg |-> NoArg, outcome |-> "none",
   ret |-> <<>>, cn |-> <<>>, id |-> 0, loads |-> 0, saves |-> 0, saved |-> 0,
   adds |-> 0, balance_before |-> 0, balance_after |-> 0,
   counter_before |-> 0, counter_after |-> 0]

\* No get_transactions_by_type call has been made yet.
NoGenerator ==
  [state |-> "none", account_number |-> "-", transaction_type |-> "-",
   time_range |-> 0, outcome |-> "none", fetched |-> <<>>, yielded |-> <<>>]

(***************************************************************************)
(* The state machine.                                                      *)
(***************************************************************************)
Init ==
  /\ metadata = <<>>
  /\ transactions_table = <<>>
  /\ clock = 0
  /\ exists = [a \in AccountNumbers |-> FALSE]
  /\ balance = [a \in AccountNumbers |-> 0]
  /\ transactions = [a \in AccountNumbers |-> <<>>]
  /\ monthly_interest_rate = DefaultMonthlyInterestRate
  /\ drawn = <<>>
  /\ last = NoCall
  /\ has_transactions_table = FALSE
  /\ gen = NoGenerator
  /\ loaded = [c \in AccountNumbers |-> <<>>]
  /\ fraction_digits = [a \in AccountNumbers |-> 0]

\* Account(account_number, balance, db, time_zone).
AccountInit(a, arg) ==
  LET r == init_result(arg)
  IN  /\ ~exists[a]
      /\ r.balance <= MaxBalance
      /\ exists' = [exists EXCEPT ![a] = (r.outcome = "returned")]
      /\ balance' = [balance EXCEPT ![a] = r.balance]
      /\ last' = [NoCall EXCEPT !.op = "__init__", !.acct = a, !.arg = arg,
                                !.outcome = r.outcome, !.balance_after = r.balance,
                                !.counter_before = nextTransactionId(metadata),
                                !.counter_after = nextTransactionId(metadata)]
      /\ fraction_digits' = [fraction_digits EXCEPT ![a] =
                               IF r.outcome = "returned"
                                 THEN digits_of_quantized(InputDigits) ELSE @]
      /\ UNCHANGED <<queryVars, loaded, metadata, transactions_table, clock, transactions,
                     monthly_interest_rate, drawn>>

\* The body shared by the three operations: draw the id, build the
\* confirmation number, then do what res says.  No operation calls
\* add_transaction, and none returns a value (the call evaluates to None).
Operation(op, a, arg, res) ==
  LET d  == DrawTransactionId(metadata)
      cn == ConfirmationNumber(res.type, a, clock, d.id)
  IN  /\ exists[a]
      /\ clock' = clock + 1
      /\ nextTransactionId(metadata) < MaxId
      /\ res.balance <= MaxBalance
      /\ metadata' = d.md
      /\ drawn' = Append(drawn, d.id)
      /\ balance' = [balance EXCEPT ![a] = res.balance]
      /\ transactions' = [transactions EXCEPT ![a] =
                            IF res.appended THEN Append(@, cn) ELSE @]
      /\ last' = [op |-> op, acct |-> a, arg |-> arg, outcome |-> res.outcome,
                  ret |-> <<>>, cn |-> <<cn>>, id |-> d.id,
                  loads |-> 1, saves |-> 1, saved |-> d.saved, adds |-> 0,
                  balance_before |-> balance[a], balance_after |-> res.balance,
                  counter_before |-> nextTransactionId(metadata),
                  counter_after |-> nextTransactionId(d.md)]
      /\ fraction_digits' = [fraction_digits EXCEPT ![a] =
                               balance_digits(op, arg, res.outcome, @)]
      /\ UNCHANGED <<queryVars, loaded, transactions_table, exists, monthly_interest_rate>>

deposit(a, arg) ==
  Operation("deposit", a, arg, deposit_result(balance[a], arg))

apply_interest(a) ==
  Operation("apply_interest", a, NoArg,
            apply_interest_result(balance[a], monthly_interest_rate))

withdraw(a, arg) ==
  Operation("withdraw", a, arg, withdraw_result(balance[a], arg))

\* A direct caller of DataBase.save_monthly_interest_rate stores a rate.
SaveMonthlyInterestRate(rate) ==
  /\ metadata' = save_monthly_interest_rate(metadata, rate)
  /\ last' = [NoCall EXCEPT !.op = "save_monthly_interest_rate",
                            !.arg = [kind |-> "rate", mills |-> rate],
                            !.counter_before = nextTransactionId(metadata),
                            !.counter_after = nextTransactionId(metadata)]
  /\ UNCHANGED <<queryVars, loaded, transactions_table, clock, exists, fraction_digits, balance, transactions,
                 monthly_interest_rate, drawn>>

Next ==
  \/ \E a \in AccountNumbers, arg \in StartInputs : AccountInit(a, arg)
  \/ \E a \in AccountNumbers, arg \in Inputs : deposit(a, arg)
  \/ \E a \in AccountNumbers : apply_interest(a)
  \/ \E a \in AccountNumbers, arg \in Inputs : withdraw(a, arg)
  \/ \E rate \in RateValues : SaveMonthlyInterestRate(rate)

Spec == Init /\ [][Next]_vars

(***************************************************************************)
(* Account.change_monthly_interest_rate(new_rate, db).  src/main.py has no *)
(* such method; it is modelled from spec.md section 4.3 and from the calls *)
(* of src/test_Account.py:215-262: a new_rate that does not convert to a   *)
(* Decimal, is negative or is above 0.40 raises ValueError and nothing     *)
(* else happens; any other is scaled to 2 fraction digits, saved with      *)
(* save_monthly_interest_rate and made the class attribute.                *)
(***************************************************************************)
MaxMonthlyInterestRate == 400

\* Rates handed to change_monthly_interest_rate, in 1/1000: below zero, the
\* two limits, above the upper limit, and 0.065 which scales to 0.06.
RateInputs == {Num(m) : m \in {-10, 0, 60, 65, 400, 410}}
                \cup {Other(k) : k \in NonNumericKinds}

\* A rate in mills scaled to 2 fraction digits, in 1/1000.
scaled_rate(mills) == quantize(mills) * 10

rate_is_valid(arg) ==
  /\ DecimalOf(arg) = "ok"
  /\ arg.mills >= 0
  /\ arg.mills <= MaxMonthlyInterestRate

change_monthly_interest_rate(a, arg) ==
  LET valid == rate_is_valid(arg)
      rate  == scaled_rate(arg.mills)
      md    == IF valid THEN save_monthly_interest_rate(metadata, rate) ELSE metadata
  IN  /\ exists[a]
      /\ metadata' = md
      /\ monthly_interest_rate' = IF valid THEN rate ELSE monthly_interest_rate
      /\ last' = [NoCall EXCEPT !.op = "change_monthly_interest_rate",
                                !.acct = a, !.arg = arg,
                                !.outcome = IF valid THEN "returned" ELSE "ValueError",
                                !.saves = IF valid THEN 1 ELSE 0,
                                !.saved = IF valid THEN rate ELSE 0,
                                !.balance_before = balance[a],
                                !.balance_after = balance[a],
                                !.counter_before = nextTransactionId(metadata),
                                !.counter_after = nextTransactionId(md)]
      /\ UNCHANGED <<queryVars, loaded, transactions_table, clock, exists, fraction_digits, balance, transactions, drawn>>

NextRate ==
  \/ \E a \in AccountNumbers, arg \in StartInputs : AccountInit(a, arg)
  \/ \E a \in AccountNumbers : apply_interest(a)
  \/ \E rate \in RateValues : SaveMonthlyInterestRate(rate)
  \/ \E a \in AccountNumbers, arg \in RateInputs : change_monthly_interest_rate(a, arg)

SpecRate == Init /\ [][NextRate]_vars

(***************************************************************************)
(* DataBase: the transactions table and get_transactions_by_type, used by  *)
(* a direct caller of the store.  Times are in days, the query is made at  *)
(* the instant clock.                                                      *)
(***************************************************************************)
\* The objects a caller hands to add_transaction: they carry the five
\* attributes it reads.  Ids are those of a counter that only grows; the
\* times are the limits of the 90 and 7 day windows, a day before the 7 day
\* window, now, and a day in the future.  Two of them, of different
\* accounts, carry the id 2: the records of two callers that drew the same id.
Logged(id, a, type, time) ==
  [transaction_id |-> id, account_number |-> a, transaction_type |-> type,
   transaction_time |-> time, amount |-> 104]

LoggedRecords ==
  { Logged(1, "acc1", "D", -90), Logged(2, "acc1", "X", 0),
    Logged(3, "acc1", "I", -7),  Logged(4, "acc2", "D", -7),
    Logged(5, "acc1", "W", -8),  Logged(6, "acc1", "D", 1),
    Logged(2, "acc2", "W", -7) }

QueryTypes == {"All", "In", "Out", "Failed", "Bogus"}
TimeRanges == {7, 30, 90, 10}

\* DataBase.create_transactions_table: CREATE TABLE IF NOT EXISTS.
create_transactions_table ==
  /\ has_transactions_table' = TRUE
  /\ last' = [NoCall EXCEPT !.op = "create_transactions_table",
                            !.outcome = "returned"]
  /\ UNCHANGED <<metadata, transactions_table, clock, exists, fraction_digits, balance,
                 transactions, monthly_interest_rate, drawn, gen, loaded>>

\* An add_transaction into a table whose id is no primary key: every row
\* handed in is inserted.
add_transaction_NoPrimaryKey(cn) ==
  /\ \A i \in DOMAIN transactions_table :
       transactions_table[i].id <= cn.transaction_id
  /\ has_transactions_table' = TRUE
  /\ transactions_table' =
       Append(transactions_table,
              [id |-> cn.transaction_id, account_number |-> cn.account_number,
               type |-> cn.transaction_type, created_at |-> cn.transaction_time,
               amount |-> cn.amount])
  /\ last' = [NoCall EXCEPT !.op = "add_transaction",
                            !.acct = cn.account_number,
                            !.outcome = "returned",
                            !.id = cn.transaction_id,
                            !.adds = 1]
  /\ UNCHANGED <<metadata, clock, exists, fraction_digits, balance, transactions,
                 monthly_interest_rate, drawn, gen, loaded>>

\* An add_transaction that writes with INSERT OR REPLACE: a row whose id the
\* table holds is overwritten by the new one.
add_transaction_Replace(cn) ==
  LET row == [id |-> cn.transaction_id, account_number |-> cn.account_number,
              type |-> cn.transaction_type, created_at |-> cn.transaction_time,
              amount |-> cn.amount]
      at  == {i \in DOMAIN transactions_table :
                transactions_table[i].id = cn.transaction_id}
  IN  /\ \A i \in DOMAIN transactions_table :
           transactions_table[i].id <= cn.transaction_id
      /\ has_transactions_table' = TRUE
      /\ transactions_table' =
           IF at = {} THEN Append(transactions_table, row)
           ELSE [i \in DOMAIN transactions_table |->
                   IF i \in at THEN row ELSE transactions_table[i]]
      /\ last' = [NoCall EXCEPT !.op = "add_transaction",
                                !.acct = cn.account_number,
                                !.outcome = "returned",
                                !.id = cn.transaction_id,
                                !.adds = 1]
      /\ UNCHANGED <<metadata, clock, exists, fraction_digits, balance, transactions,
                     monthly_interest_rate, drawn, gen, loaded>>

\* DataBase.add_transaction: the table is created if it is missing, then
\* the row is inserted; id is the primary key, so a second row with an id
\* the table holds is refused (sqlite3.IntegrityError, re-raised as
\* DataInsertionError).
add_transaction(cn) ==
  LET held == {transactions_table[i].id : i \in DOMAIN transactions_table}
      row  == [id |-> cn.transaction_id, account_number |-> cn.account_number,
               type |-> cn.transaction_type, created_at |-> cn.transaction_time,
               amount |-> cn.amount]
      dup  == cn.transaction_id \in held
  IN  /\ \A id \in held : id <= cn.transaction_id
      /\ has_transactions_table' = TRUE
      /\ transactions_table' = IF dup THEN transactions_table
                                      ELSE Append(transactions_table, row)
      /\ last' = [NoCall EXCEPT !.op = "add_transaction",
                                !.acct = cn.account_number,
                                !.outcome = IF dup THEN "DataInsertionError" ELSE "returned",
                                !.id = cn.transaction_id,
                                !.adds = IF dup THEN 0 ELSE 1]
      /\ UNCHANGED <<metadata, clock, exists, fraction_digits, balance, transactions,
                     monthly_interest_rate, drawn, gen, loaded>>

\* The checks at the head of the generator body: the time range first.
query_error(transaction_type, time_range) ==
  IF time_range \notin {7, 30, 90} THEN "ValueError"
  ELSE IF transaction_type \notin {"In", "Out", "Failed", "All"} THEN "ValueError"
  ELSE "none"

\* The WHERE clause on type.
type_matches(transaction_type, type) ==
  CASE transaction_type = "In" -> type \in {"D", "I"}
    [] transaction_type = "Out" -> type = "W"
    [] transaction_type = "Failed" -> type = "X"
    [] transaction_type = "All" -> TRUE

\* WHERE account_number = ? AND <type> AND created_at BETWEEN ? AND ?
\* with end_date = now and start_date = now - days.
selected(table, account_number, transaction_type, time_range, now) ==
  { i \in DOMAIN table :
      /\ table[i].account_number = account_number
      /\ type_matches(transaction_type, table[i].type)
      /\ table[i].created_at >= now - time_range
      /\ table[i].created_at <= now }

\* ORDER BY created_at DESC over the rows at the positions S; rows of equal
\* time come in the order of their insertion.
RECURSIVE order_by_created_at_desc(_, _)
order_by_created_at_desc(table, S) ==
  IF S = {} THEN <<>>
  ELSE LET i == CHOOSE j \in S : \A k \in S :
                  \/ table[j].created_at > table[k].created_at
                  \/ table[j].created_at = table[k].created_at /\ j <= k
       IN  <<table[i]>> \o order_by_created_at_desc(table, S \ {i})

\* The parameters of ConfirmationNumber.__init__ after self.
ConfirmationNumberParameters ==
  <<"transaction_type", "account_number", "transaction_time", "transaction_id">>

\* DataBase.get_confirmation_number_from_row: it calls ConfirmationNumber
\* with five positional arguments, the amount last.
get_confirmation_number_from_row(row) ==
  LET args == <<row.type, row.account_number, row.created_at, row.id, row.amount>>
  IN  IF Len(args) = Len(ConfirmationNumberParameters)
        THEN [error |-> "none",
              cn |-> ConfirmationNumber(args[1], args[2], args[3], args[4])]
        ELSE [error |-> "TypeError"]

\* The records the loop yields before a conversion raises, if one does.
RECURSIVE yield_rows(_)
yield_rows(rows) ==
  IF rows = <<>> THEN [error |-> "none", yielded |-> <<>>]
  ELSE LET c == get_confirmation_number_from_row(Head(rows))
       IN  IF c.error # "none" THEN [error |-> c.error, yielded |-> <<>>]
           ELSE LET rest == yield_rows(Tail(rows))
                IN  [error |-> rest.error, yielded |-> <<c.cn>> \o rest.yielded]

\* The call of get_transactions_by_type.  The function is a generator
\* function: the call runs none of its body and returns a generator object.
get_transactions_by_type(account_number, transaction_type, time_range) ==
  /\ gen' = [NoGenerator EXCEPT !.state = "created",
                                !.account_number = account_number,
                                !.transaction_type = transaction_type,
                                !.time_range = time_range]
  /\ last' = [NoCall EXCEPT !.op = "get_transactions_by_type",
                            !.acct = account_number, !.outcome = "returned"]
  /\ UNCHANGED <<metadata, transactions_table, clock, exists, fraction_digits, balance,
                 transactions, monthly_interest_rate, drawn,
                 has_transactions_table, loaded>>

\* The caller iterates the generator to its end (for ... in, list(...)):
\* the body runs now, checks its arguments, reads the table and converts
\* the rows one by one.
iterate ==
  LET err  == query_error(gen.transaction_type, gen.time_range)
      rows == order_by_created_at_desc(transactions_table,
                selected(transactions_table, gen.account_number,
                         gen.transaction_type, gen.time_range, clock))
      y    == yield_rows(rows)
      out  == IF err # "none" THEN err
              ELSE IF ~has_transactions_table THEN "DataRetrievalError"
              ELSE IF y.error # "none" THEN y.error
              ELSE "exhausted"
      read == err = "none" /\ has_transactions_table
  IN  /\ gen.state = "created"
      /\ gen' = [gen EXCEPT !.state = "finished", !.outcome = out,
                            !.fetched = IF read THEN rows ELSE <<>>,
                            !.yielded = IF read THEN y.yielded ELSE <<>>]
      /\ last' = [NoCall EXCEPT !.op = "iterate", !.acct = gen.account_number,
                                !.outcome = out]
      /\ UNCHANGED <<metadata, transactions_table, clock, exists, fraction_digits, balance,
                     transactions, monthly_interest_rate, drawn,
                     has_transactions_table, loaded>>

NextStore ==
  \/ create_transactions_table
  \/ \E cn \in LoggedRecords : add_transaction(cn)
  \/ \E t \in QueryTypes, r \in TimeRanges : get_transactions_by_type("acc1", t, r)
  \/ iterate

SpecStore == Init /\ [][NextStore]_vars

(***************************************************************************)
(* Two callers, each with its own Account, work on the same store.  Every  *)
(* store call opens its own connection and commits by itself, so another   *)
(* caller's calls can come between the load_transaction_id and the         *)
(* save_transaction_id of a deposit: the deposit is two steps here.        *)
(***************************************************************************)
\* deposit up to the return of load_transaction_id (src/main.py:329-332):
\* the time is read, the id is loaded.
deposit_load(a) ==
  LET l == load_transaction_id(metadata)
  IN  /\ exists[a]
      /\ loaded[a] = <<>>
      /\ Len(drawn) <= MaxId
      /\ metadata' = l.md
      /\ loaded' = [loaded EXCEPT ![a] = <<[id |-> l.id, time |-> clock]>>]
      /\ drawn' = Append(drawn, l.id)
      /\ clock' = clock + 1
      /\ last' = [NoCall EXCEPT !.op = "load_transaction_id", !.acct = a,
                                !.outcome = "returned", !.id = l.id, !.loads = 1,
                                !.balance_before = balance[a],
                                !.balance_after = balance[a],
                                !.counter_before = nextTransactionId(metadata),
                                !.counter_after = nextTransactionId(l.md)]
      /\ UNCHANGED <<queryVars, transactions_table, exists, fraction_digits, balance,
                     transactions, monthly_interest_rate>>

\* deposit from save_transaction_id to its end (src/main.py:333-346).
deposit_save(a, arg) ==
  LET h   == loaded[a][1]
      res == deposit_result(balance[a], arg)
      cn  == ConfirmationNumber(res.type, a, h.time, h.id)
      md  == save_transaction_id(metadata, h.id + 1)
  IN  /\ loaded[a] # <<>>
      /\ res.balance <= MaxBalance
      /\ metadata' = md
      /\ loaded' = [loaded EXCEPT ![a] = <<>>]
      /\ balance' = [balance EXCEPT ![a] = res.balance]
      /\ transactions' = [transactions EXCEPT ![a] =
                            IF res.appended THEN Append(@, cn) ELSE @]
      /\ last' = [op |-> "deposit", acct |-> a, arg |-> arg, outcome |-> res.outcome,
                  ret |-> <<>>, cn |-> <<cn>>, id |-> h.id,
                  loads |-> 1, saves |-> 1, saved |-> h.id + 1, adds |-> 0,
                  balance_before |-> balance[a], balance_after |-> res.balance,
                  counter_before |-> nextTransactionId(metadata),
                  counter_after |-> nextTransactionId(md)]
      /\ fraction_digits' = [fraction_digits EXCEPT ![a] =
                               balance_digits("deposit", arg, res.outcome, @)]
      /\ UNCHANGED <<queryVars, transactions_table, clock, exists,
                     monthly_interest_rate, drawn>>

ConcurrentInputs == {Num(104), Num(5), Other("text")}

NextConcurrent ==
  \/ \E a \in AccountNumbers, arg \in StartInputs : AccountInit(a, arg)
  \/ \E a \in AccountNumbers : deposit_load(a)
  \/ \E a \in AccountNumbers, arg \in ConcurrentInputs : deposit_save(a, arg)

SpecConcurrent == Init /\ [][NextConcurrent]_vars

(***************************************************************************)
(* The store can fail: every sqlite3.Error inside load_transaction_id is   *)
(* re-raised as DataRetrievalError and inside save_transaction_id as       *)
(* DataInsertionError (src/database.py:263, 284).  The operations do not   *)
(* catch either, so the error leaves the operation at the call that made   *)
(* it: before the confirmation number exists for a failed load, after it   *)
(* was built for a failed save.                                            *)
(***************************************************************************)
StoreFailure(op, a, arg, outcome, md, ids) ==
  /\ exists[a]
  /\ Len(drawn) < MaxId
  /\ metadata' = md
  /\ drawn' = drawn \o ids
  /\ last' = [NoCall EXCEPT !.op = op, !.acct = a, !.arg = arg,
                            !.outcome = outcome,
                            !.loads = 1, !.saves = Len(ids),
                            !.balance_before = balance[a],
                            !.balance_after = balance[a],
                            !.counter_before = nextTransactionId(metadata),
                            !.counter_after = nextTransactionId(md)]
  /\ UNCHANGED <<queryVars, loaded, transactions_table, clock, exists, fraction_digits, balance, transactions,
                 monthly_interest_rate>>

\* load_transaction_id raises while the arguments of ConfirmationNumber are
\* evaluated: nothing was written and no id was drawn.
LoadTransactionIdFails(op, a, arg) ==
  StoreFailure(op, a, arg, "DataRetrievalError", metadata, <<>>)

\* load_transaction_id returned (a fresh store now holds the row it wrote),
\* then save_transaction_id raises: the id was drawn, the counter was not
\* advanced by the operation.
SaveTransactionIdFails(op, a, arg) ==
  LET l == load_transaction_id(metadata)
  IN  StoreFailure(op, a, arg, "DataInsertionError", l.md, <<l.id>>)

\* The amount is not looked at before the store calls are made, so a failed
\* call is tried with one amount that would be accepted and one that would not.
OperationInputs(op) ==
  IF op = "apply_interest" THEN {NoArg} ELSE {Num(104), Other("text")}

NextStorageFailure ==
  \/ \E a \in AccountNumbers, arg \in StartInputs : AccountInit(a, arg)
  \/ \E a \in AccountNumbers, arg \in Inputs : deposit(a, arg)
  \/ \E a \in AccountNumbers : apply_interest(a)
  \/ \E a \in AccountNumbers, arg \in Inputs : withdraw(a, arg)
  \/ \E op \in Operations, a \in AccountNumbers : \E arg \in OperationInputs(op) :
       LoadTransactionIdFails(op, a, arg)
  \/ \E op \in Operations, a \in AccountNumbers : \E arg \in OperationInputs(op) :
       SaveTransactionIdFails(op, a, arg)

SpecStorageFailure == Init /\ [][NextStorageFailure]_vars

(***************************************************************************)
(* What the claims speak about.                                            *)
(***************************************************************************)
\* The most recent call is one of the three operations.
IsOperation == last.op \in Operations

\* The amount of the most recent call, scaled to 2 fraction digits (cents).
ScaledAmount == quantize(last.arg.mills)

\* The rows of the transactions table that carry the id of the most recent call.
RowsOfLastCall ==
  {i \in DOMAIN transactions_table : transactions_table[i].id = last.id}

\* A confirmation record carries the amount v.
RecordAmountIs(cn, v) == "amount" \in DOMAIN cn /\ cn.amount = v

(***************************************************************************)
(* C1 - the balance of an account is never negative, whatever deposits,    *)
(* withdrawals and interest applications were attempted on it.             *)
(***************************************************************************)
C1_BalanceNeverNegative ==
  \A a \in AccountNumbers : balance[a] >= 0

\* A withdrawal of more than the balance was attempted and refused.
C1_Witness ==
  /\ last.op = "withdraw"
  /\ last.arg.kind = "num"
  /\ ScaledAmount > last.balance_before
  /\ last.balance_before > 0
  /\ balance[last.acct] = last.balance_before

(***************************************************************************)
(* C2 - every deposit, withdraw and apply_interest call, however it ends,  *)
(* loads the counter once and saves id + 1 once: the persisted counter     *)
(* after the call is one more than before it.                              *)
(***************************************************************************)
C2_CounterAdvancesByOne ==
  IsOperation =>
    /\ last.loads = 1
    /\ last.saves = 1
    /\ last.saved = last.id + 1
    /\ last.id = last.counter_before
    /\ last.counter_after = last.counter_before + 1
    /\ nextTransactionId(metadata) = last.counter_after

\* A declined call on a store whose counter had already advanced.
C2_Witness ==
  /\ IsOperation
  /\ last.outcome = "TransactionDeclinedError"
  /\ last.counter_before = 1
  /\ nextTransactionId(metadata) = 2

(***************************************************************************)
(* C3 - with one caller, the ids drawn by successive attempts on the store *)
(* (all accounts, all outcomes) strictly increase, and the first attempt   *)
(* on a fresh store draws 0.                                               *)
(***************************************************************************)
C3_IdsStrictlyIncreasing ==
  /\ \A i, j \in DOMAIN drawn : i < j => drawn[i] < drawn[j]
  /\ drawn # <<>> => drawn[1] = 0

\* Two attempts on two different accounts, the second one declined.
C3_Witness ==
  /\ Len(drawn) = 2
  /\ last.outcome = "TransactionDeclinedError"
  /\ \E a \in AccountNumbers : a # last.acct /\ Len(transactions[a]) = 1

(***************************************************************************)
(* C4 - every attempt persists exactly one confirmation record through     *)
(* add_transaction, carrying the drawn id and the account's number.        *)
(***************************************************************************)
C4_OneRecordPersistedPerAttempt ==
  IsOperation =>
    /\ last.adds = 1
    /\ Cardinality(RowsOfLastCall) = 1
    /\ \A i \in RowsOfLastCall : transactions_table[i].account_number = last.acct

(***************************************************************************)
(* C5 - a deposit or withdraw whose amount fails validation (not a number; *)
(* for withdraw also not positive, or above the balance) ends with         *)
(* TransactionDeclinedError and leaves the balance as it was.              *)
(***************************************************************************)
FailsValidation ==
  \/ last.arg.kind # "num"
  \/ last.op = "withdraw" /\ (ScaledAmount <= 0 \/ ScaledAmount > last.balance_before)

C5_DeclineSignalledBalanceKept ==
  (last.op \in {"deposit", "withdraw"} /\ FailsValidation) =>
    /\ last.outcome = "TransactionDeclinedError"
    /\ last.balance_after = last.balance_before
    /\ balance[last.acct] = last.balance_before

(***************************************************************************)
(* C6 - the record persisted for a declined attempt has type 'X', the      *)
(* account's number, the drawn id and the amount 0.00.                     *)
(***************************************************************************)
C6_DeclinedRecordPersisted ==
  (IsOperation /\ last.outcome = "TransactionDeclinedError") =>
    \E i \in DOMAIN transactions_table :
      /\ transactions_table[i].id = last.id
      /\ transactions_table[i].type = "X"
      /\ transactions_table[i].account_number = last.acct
      /\ transactions_table[i].amount = 0

(***************************************************************************)
(* C7 - withdraw is declined exactly when the amount is not a number, is   *)
(* not positive, or exceeds the balance; otherwise it succeeds and takes   *)
(* the amount off the balance.  The amount is the one scaled to 2 digits.  *)
(***************************************************************************)
C7_WithdrawDeclinedIff ==
  last.op = "withdraw" =>
    /\ (last.outcome = "TransactionDeclinedError") <=> FailsValidation
    /\ ~FailsValidation =>
         /\ last.outcome = "returned"
         /\ balance[last.acct] = last.balance_before - ScaledAmount

(***************************************************************************)
(* C8 - a deposit of a numeric amount >= 0 succeeds, adds the amount       *)
(* scaled to 2 digits to the balance, and its record carries that amount.  *)
(***************************************************************************)
C8_DepositAddsScaledAmount ==
  (last.op = "deposit" /\ last.arg.kind = "num" /\ last.arg.mills >= 0) =>
    /\ last.outcome = "returned"
    /\ balance[last.acct] = last.balance_before + ScaledAmount
    /\ RecordAmountIs(last.cn[1], ScaledAmount)

(***************************************************************************)
(* C9 - a deposit of a numeric amount < 0 is not declined: it succeeds,    *)
(* leaves the balance unchanged and produces a record of type 'D' whose    *)
(* amount is 0.00.                                                         *)
(***************************************************************************)
C9_NegativeDepositAddsNothing ==
  (last.op = "deposit" /\ last.arg.kind = "num" /\ last.arg.mills < 0) =>
    /\ last.outcome = "returned"
    /\ balance[last.acct] = last.balance_before
    /\ last.cn[1].transaction_type = "D"
    /\ RecordAmountIs(last.cn[1], 0)

(***************************************************************************)
(* C10 - deposit and withdraw of an input that is not a number (text, the  *)
(* empty string, None, a dict, set, tuple or list) end with                *)
(* TransactionDeclinedError and with no other error.                       *)
(***************************************************************************)
C10_NonNumbersAreDeclined ==
  (last.op \in {"deposit", "withdraw"} /\ last.arg.kind \in NonNumericKinds) =>
    last.outcome = "TransactionDeclinedError"

\* The part of C5, C7, C8, C9 and C10 that the operations do keep: on the
\* inputs is_amount_a_number answers for, the decline rule and the balance
\* arithmetic are as claimed.
AnsweredInput == last.arg.kind \in TextKinds \cup {"num"}

BalanceRulesOnAnsweredInputs ==
  /\ (last.op \in {"deposit", "withdraw"} /\ AnsweredInput) =>
       /\ (last.outcome = "TransactionDeclinedError") <=> FailsValidation
       /\ FailsValidation => balance[last.acct] = last.balance_before
       /\ ~FailsValidation => last.outcome = "returned"
  /\ (last.op = "withdraw" /\ AnsweredInput /\ ~FailsValidation) =>
       balance[last.acct] = last.balance_before - ScaledAmount
  /\ (last.op = "deposit" /\ last.arg.kind = "num") =>
       balance[last.acct] =
         last.balance_before + (IF last.arg.mills < 0 THEN 0 ELSE ScaledAmount)
  /\ (IsOperation /\ last.outcome = "returned") =>
       /\ ~RecordAmountIs(last.cn[1], ScaledAmount)
       /\ last.ret = <<>>

(***************************************************************************)
(* C11 - a successful deposit, withdraw or apply_interest returns the      *)
(* confirmation record it produced, of type 'D', 'W' and 'I' respectively. *)
(***************************************************************************)
TypeOf(op) ==
  CASE op = "deposit" -> "D" [] op = "withdraw" -> "W" [] op = "apply_interest" -> "I"

C11_SuccessReturnsItsRecord ==
  (IsOperation /\ last.outcome = "returned") =>
    /\ last.ret = last.cn
    /\ last.cn[1].transaction_type = TypeOf(last.op)

(***************************************************************************)
(* C12 - apply_interest never declines: the new balance is the old one     *)
(* plus (old balance x monthly rate) rounded to 2 digits, the record's     *)
(* amount is that interest, and a zero balance or a zero rate leaves the   *)
(* balance unchanged.  The monthly rate is the one the store holds.        *)
(***************************************************************************)
StoredRate == load_monthly_interest_rate(metadata).rate

C12_InterestAppliedAtMonthlyRate ==
  last.op = "apply_interest" =>
    /\ last.outcome = "returned"
    /\ balance[last.acct] = last.balance_before + interest(last.balance_before, StoredRate)
    /\ RecordAmountIs(last.cn[1], interest(last.balance_before, StoredRate))
    /\ (last.balance_before = 0 \/ StoredRate = 0) => balance[last.acct] = last.balance_before

(***************************************************************************)
(* C13 - apply_interest computes its interest with the rate the store      *)
(* holds when it is called, so a rate saved between two calls is the rate  *)
(* of the second call.                                                     *)
(***************************************************************************)
C13_InterestUsesStoredRate ==
  (last.op = "apply_interest" /\ "monthly_interest_rate" \in DOMAIN metadata) =>
    last.balance_after = last.balance_before + interest(last.balance_before, StoredRate)

\* What apply_interest does keep of C12 and C13: it always returns, and the
\* interest is the balance times the class attribute, rounded to 2 digits.
InterestAtClassRate ==
  last.op = "apply_interest" =>
    /\ last.outcome = "returned"
    /\ balance[last.acct] =
         last.balance_before + interest(last.balance_before, monthly_interest_rate)
    /\ last.balance_before = 0 => balance[last.acct] = 0

(***************************************************************************)
(* C14 - scaling to 2 fraction digits of a value exactly halfway between   *)
(* two adjacent cents.  The statement as made: the value goes to the       *)
(* higher cent.  The statement that holds: it goes to the even cent.       *)
(***************************************************************************)
\* The most recent call scaled a non-negative value Raw/Div cents to Got cents.
Scaled ==
  last.outcome = "returned" /\
    \/ last.op \in {"deposit", "withdraw", "__init__"} /\ last.arg.mills >= 0
    \/ last.op = "apply_interest"

Div == IF last.op = "apply_interest" THEN 1000 ELSE 10

Raw ==
  IF last.op = "apply_interest" THEN last.balance_before * monthly_interest_rate
                                ELSE last.arg.mills

Got ==
  CASE last.op = "withdraw" -> last.balance_before - last.balance_after
    [] last.op = "__init__" -> last.balance_after
    [] OTHER -> last.balance_after - last.balance_before

Halfway == Scaled /\ 2 * (Raw % Div) = Div

C14_HalfwayGoesToHigherCent ==
  Halfway => Got = (Raw \div Div) + 1

C14_HalfwayGoesToEvenCent ==
  Halfway => /\ Got \in {Raw \div Div, (Raw \div Div) + 1}
             /\ Got % 2 = 0

\* A halfway value that went down to the even cent (0.005 to 0.00, 0.205 to 0.20).
C14_Witness ==
  /\ Halfway
  /\ Got = Raw \div Div

(***************************************************************************)
(* C15 - when a store call made during deposit, withdraw or apply_interest *)
(* fails, the operation ends with that error and the balance is the one    *)
(* before the call; and the balance changes only once the record of the    *)
(* operation has been persisted.                                           *)
(***************************************************************************)
StoreErrors == {"DataRetrievalError", "DataInsertionError"}

C15_BalanceChangesOnlyAfterPersisting ==
  IsOperation =>
    /\ last.outcome \in StoreErrors => balance[last.acct] = last.balance_before
    /\ balance[last.acct] # last.balance_before => Cardinality(RowsOfLastCall) = 1

\* The half of C15 the code keeps: a failed load or save ends the operation
\* with the balance, the account's records and the table as they were.
StoreFailureKeepsBalance ==
  (IsOperation /\ last.outcome \in StoreErrors) =>
    /\ balance[last.acct] = last.balance_before
    /\ last.cn = <<>>
    /\ last.adds = 0

(***************************************************************************)
(* C16 - change_monthly_interest_rate with a new rate that is not a        *)
(* number, is negative or is above 0.40 fails with an argument error and   *)
(* changes nothing: no rate is saved, the stored rate and the class rate   *)
(* stay as they were, no record is persisted and the transaction-id        *)
(* counter is not advanced.                                                *)
(***************************************************************************)
RateCalled == last'.op = "change_monthly_interest_rate"

RateAccepted(arg) == arg.kind = "num" /\ arg.mills >= 0 /\ arg.mills <= 400

ValidQuery ==
  /\ gen.transaction_type \in {"All", "In", "Out", "Failed"}
  /\ gen.time_range \in {7, 30, 90}

FilterSet(t) ==
  CASE t = "In" -> {"D", "I"} [] t = "Out" -> {"W"} [] t = "Failed" -> {"X"}
    [] OTHER -> {"D", "W", "I", "X"}

\* The ids of the logged rows the query is to yield.
Wanted ==
  { transactions_table[i].id : i \in
      { j \in DOMAIN transactions_table :
          /\ transactions_table[j].account_number = gen.account_number
          /\ transactions_table[j].type \in FilterSet(gen.transaction_type)
          /\ clock - gen.time_range <= transactions_table[j].created_at
          /\ transactions_table[j].created_at <= clock } }

C18_QueryYieldsExactlyTheWindow ==
  (last.op = "iterate" /\ ValidQuery) =>
    /\ gen.outcome = "exhausted"
    /\ Len(gen.yielded) = Cardinality(Wanted)
    /\ {gen.yielded[k].transaction_id : k \in DOMAIN gen.yielded} = Wanted
    /\ \A k \in DOMAIN gen.yielded :
         /\ gen.yielded[k].account_number = gen.account_number
         /\ k > 1 => gen.yielded[k - 1].transaction_time >= gen.yielded[k].transaction_time

\* What the query does keep of C18: the rows it reads from an existing
\* table are exactly the wanted ones, each once, latest first; it ends
\* without an error exactly when there is none to convert.
QueryReadsExactlyTheWindow ==
  (last.op = "iterate" /\ ValidQuery) =>
    /\ gen.outcome = "DataRetrievalError" <=> ~has_transactions_table
    /\ gen.outcome = "TypeError" <=> (has_transactions_table /\ Wanted # {})
    /\ gen.outcome = "exhausted" <=> (has_transactions_table /\ Wanted = {})
    /\ gen.yielded = <<>>
    /\ has_transactions_table =>
         /\ Len(gen.fetched) = Cardinality(Wanted)
         /\ {gen.fetched[k].id : k \in DOMAIN gen.fetched} = Wanted
         /\ \A k \in DOMAIN gen.fetched :
              k > 1 => gen.fetched[k - 1].created_at >= gen.fetched[k].created_at

(***************************************************************************)
(* C19 - get_transactions_by_type with a type other than All, In, Out,     *)
(* Failed or a window other than 7, 30, 90 fails with an invalid-argument  *)
(* error at the call, falls back to no default, and never hands a record   *)
(* to the caller.                                                          *)
(***************************************************************************)
C19_InvalidQueryFailsAtTheCall ==
  (gen.state # "none" /\ ~ValidQuery) =>
    /\ last.op = "get_transactions_by_type" => last.outcome = "ValueError"
    /\ gen.state = "finished" => gen.outcome = "ValueError"
    /\ gen.yielded = <<>>

\* What the query does keep of C19: once the caller iterates, an invalid
\* type or window ends in ValueError before the table is read.
InvalidQueryFailsWhenIterated ==
  (gen.state = "finished" /\ ~ValidQuery) =>
    /\ gen.outcome = "ValueError"
    /\ gen.fetched = <<>>
    /\ gen.yielded = <<>>

(***************************************************************************)
(* C20 - the id draw of an operation is not atomic: load_transaction_id    *)
(* hands out the stored counter and leaves it as it is, only the later     *)
(* save_transaction_id(id + 1) advances it, so when the operations of two  *)
(* callers interleave between the load and the save both can be given the  *)
(* same id.                                                                *)
(***************************************************************************)
C20_LoadDoesNotAdvanceCounter ==
  [][\A a \in AccountNumbers :
       (loaded[a] = <<>> /\ loaded'[a] # <<>> /\ "transaction_id" \in DOMAIN metadata) =>
         /\ loaded'[a][1].id = metadata["transaction_id"]
         /\ metadata' = metadata]_vars

\* Two deposits, one of each caller, ended with records of the same id.
C20_Witness ==
  \E i \in DOMAIN transactions["acc1"], j \in DOMAIN transactions["acc2"] :
    transactions["acc1"][i].transaction_id = transactions["acc2"][j].transaction_id

(***************************************************************************)
(* C21 - the persisted transaction-id counter is monotonic: no step, in    *)
(* any interleaving of the load and save steps of two callers' operations  *)
(* on the same store, sets it to a value lower than the one it held.       *)
(***************************************************************************)
C21_CounterNeverDecreases ==
  [][nextTransactionId(metadata') >= nextTransactionId(metadata)]_vars

(***************************************************************************)
(* C22 - for every valid amount a > 0 and every account state, deposit(a)  *)
(* followed immediately by withdraw(a) on the same account leaves the      *)
(* balance at the value it had before the deposit.                         *)
(***************************************************************************)
C22_DepositThenWithdrawRestoresBalance ==
  [][( /\ last.op = "deposit" /\ last.outcome = "returned"
       /\ last.arg.kind = "num" /\ last.arg.mills > 0
       /\ last'.op = "withdraw" /\ last'.acct = last.acct /\ last'.arg = last.arg )
     => balance'[last.acct] = last.balance_before]_vars

\* An account that started with 0.20 took deposit(0.104) and then
\* withdraw(0.104): its session list is the two records, its balance 0.20
\* again after 0.30.
C22_Witness ==
  /\ last.op = "withdraw"
  /\ last.outcome = "returned"
  /\ last.arg = Num(104)
  /\ last.balance_before = 30
  /\ balance[last.acct] = 20
  /\ Len(transactions[last.acct]) = 2
  /\ transactions[last.acct][1].transaction_type = "D"
  /\ transactions[last.acct][2].transaction_type = "W"

(***************************************************************************)
(* C23 - the transaction log is append-only: no operation changes or       *)
(* removes a row the log holds, and each successful add_transaction adds   *)
(* exactly one row, with the id, account number, type, time and amount of  *)
(* the record it was given.                                                *)
(***************************************************************************)
RowOfRecord(cn) ==
  [id |-> cn.transaction_id, account_number |-> cn.account_number,
   type |-> cn.transaction_type, created_at |-> cn.transaction_time,
   amount |-> cn.amount]

C23_LogIsAppendOnly ==
  [][ /\ Len(transactions_table') >= Len(transactions_table)
      /\ \A i \in DOMAIN transactions_table :
           transactions_table'[i] = transactions_table[i]
      /\ IF last'.op = "add_transaction" /\ last'.outcome = "returned"
           THEN /\ Len(transactions_table') = Len(transactions_table) + 1
                /\ \E cn \in LoggedRecords :
                     /\ cn.transaction_id = last'.id
                     /\ transactions_table'[Len(transactions_table')] = RowOfRecord(cn)
           ELSE transactions_table' = transactions_table ]_vars

\* A record was added to a log that held two rows or more.
C23_Witness ==
  /\ last.op = "add_transaction"
  /\ last.outcome = "returned"
  /\ Len(transactions_table) >= 3

(***************************************************************************)
(* C24 - the balance of an account always has exactly 2 fraction digits,   *)
(* whatever deposit, withdraw and apply_interest calls were made on it.    *)
(***************************************************************************)
C24_BalanceHasTwoFractionDigits ==
  \A a \in AccountNumbers : exists[a] => fraction_digits[a] = 2

\* Interest was applied to a balance of 0.20, after a deposit on the same
\* account: the product had 4 fraction digits, the balance has 2.
C24_Witness ==
  /\ last.op = "apply_interest"
  /\ last.balance_after > last.balance_before
  /\ fraction_digits[last.acct] = 2
  /\ Len(transactions[last.acct]) = 2
  /\ transactions[last.acct][1].transaction_type = "D"
  /\ last.balance_before = 20

(***************************************************************************)
(* C25 - every operation advances the counter (save_transaction_id of the  *)
(* id plus one) before it validates the amount and before its record is    *)
(* persisted, so with a single caller every record of the log and of the   *)
(* session lists has an id strictly smaller than the persisted counter.    *)
(***************************************************************************)
C25_RecordIdsBelowCounter ==
  /\ \A a \in AccountNumbers : \A i \in DOMAIN transactions[a] :
       transactions[a][i].transaction_id < nextTransactionId(metadata)
  /\ \A i \in DOMAIN transactions_table :
       transactions_table[i].id < nextTransactionId(metadata)
  /\ IsOperation =>
       /\ last.saved = last.id + 1
       /\ last.counter_after = last.id + 1
       /\ last.id < nextTransactionId(metadata)

\* A withdraw whose amount failed validation: its id was consumed and its
\* record, of type X, is in the session list.
C25_Witness ==
  /\ last.op = "withdraw"
  /\ last.outcome = "TransactionDeclinedError"
  /\ Len(transactions[last.acct]) = 2
  /\ transactions[last.acct][2].transaction_type = "X"
  /\ transactions[last.acct][2].transaction_id = 1
  /\ nextTransactionId(metadata) = 2

(***************************************************************************)
(* C26 - constructing an Account with a starting balance that is not a     *)
(* number or is negative fails with ValueError and creates no account;     *)
(* with a valid starting balance b >= 0 the account starts with b scaled   *)
(* to 2 digits; construction consumes no transaction id.                   *)
(***************************************************************************)
C26_ConstructorValidatesStartingBalance ==
  last.op = "__init__" =>
    /\ IF last.arg.kind # "num" \/ last.arg.mills < 0
         THEN last.outcome = "ValueError" /\ ~exists[last.acct]
         ELSE /\ last.outcome = "returned"
              /\ exists[last.acct]
              /\ balance[last.acct] = quantize(last.arg.mills)
    /\ last.loads = 0
    /\ last.saves = 0
    /\ last.counter_after = last.counter_before

\* What the constructor does keep of C26: a failed construction creates no
\* account, whatever the error; text and amounts that scale below zero end
\* in ValueError; an amount that scales to zero or more starts the account
\* with the scaled amount; the store is not called.
ConstructorOnAnsweredInputs ==
  last.op = "__init__" =>
    /\ last.outcome # "returned" => ~exists[last.acct]
    /\ last.arg.kind \in TextKinds => last.outcome = "ValueError"
    /\ (last.arg.kind = "num" /\ quantize(last.arg.mills) < 0) =>
         last.outcome = "ValueError"
    /\ (last.arg.kind = "num" /\ quantize(last.arg.mills) >= 0) =>
         /\ last.outcome = "returned"
         /\ balance[last.acct] = quantize(last.arg.mills)
    /\ last.loads = 0 /\ last.saves = 0
    /\ last.counter_after = last.counter_before

(***************************************************************************)
(* C27 - reading the counter is pure: on every store, a fresh one with no  *)
(* saved counter included, a load_transaction_id call leaves the persisted *)
(* counter as it was, and two consecutive calls with no save between them  *)
(* return the same id.                                                     *)
(***************************************************************************)
C27_LoadIsPure ==
  [][last'.op = "load_transaction_id" =>
       /\ metadata' = metadata
       /\ last.op = "load_transaction_id" => last'.id = last.id]_vars

\* What load_transaction_id does keep of C27: on a store that holds the
\* counter it returns it and writes nothing, so consecutive loads agree.
LoadIsPureOnceStored ==
  [][(last'.op = "load_transaction_id" /\ "transaction_id" \in DOMAIN metadata) =>
       /\ metadata' = metadata
       /\ last'.id = metadata["transaction_id"]
       /\ (last.op = "load_transaction_id" /\ last.counter_before = last.counter_after)
            => last'.id = last.id]_vars

(***************************************************************************)
(* C28 - the persisted log never holds two rows with the same id, even     *)
(* when two callers drew the same id: the second add_transaction with that *)
(* id fails with DataInsertionError and leaves the log as it was, so one   *)
(* of the two attempts ends with no persisted record.                      *)
(***************************************************************************)
LoggedIds(table) == {table[i].id : i \in DOMAIN table}

C28_NoTwoRowsWithOneId ==
  [][ /\ \A i, j \in DOMAIN transactions_table' :
           transactions_table'[i].id = transactions_table'[j].id => i = j
      /\ (last'.op = "add_transaction" /\ last'.id \in LoggedIds(transactions_table)) =>
           /\ last'.outcome = "DataInsertionError"
           /\ transactions_table' = transactions_table ]_vars

\* The record of one account was refused because the log holds a row of
\* another account with its id.
C28_Witness ==
  /\ last.op = "add_transaction"
  /\ last.outcome = "DataInsertionError"
  /\ \E i \in DOMAIN transactions_table :
       /\ transactions_table[i].id = last.id
       /\ transactions_table[i].account_number # last.acct

(***************************************************************************)
(* C29 - the session list of an account holds exactly one record for every *)
(* attempt on it that consumed an id, successful or declined, whatever the *)
(* input, in strictly increasing id order, and no other record.            *)
(***************************************************************************)
SessionIds(a) == {transactions[a][i].transaction_id : i \in DOMAIN transactions[a]}

DrawnIds == {drawn[i] : i \in DOMAIN drawn}

SessionListsInIdOrder ==
  \A a \in AccountNumbers : \A i, j \in DOMAIN transactions[a] :
    i < j => transactions[a][i].transaction_id < transactions[a][j].transaction_id

C29_OneSessionRecordPerConsumedId ==
  /\ SessionListsInIdOrder
  /\ SessionIds("acc1") \cup SessionIds("acc2") = DrawnIds
  /\ SessionIds("acc1") \cap SessionIds("acc2") = {}
  /\ IsOperation =>
       /\ transactions[last.acct] # <<>>
       /\ transactions[last.acct][Len(transactions[last.acct])] = last.cn[1]

\* What the operations do keep of C29: the lists are in strictly increasing
\* id order, hold only records of ids that were consumed, no id twice, and
\* every attempt that returned or was declined appended its record.
SessionListsHoldAnsweredAttempts ==
  /\ SessionListsInIdOrder
  /\ SessionIds("acc1") \cup SessionIds("acc2") \subseteq DrawnIds
  /\ SessionIds("acc1") \cap SessionIds("acc2") = {}
  /\ (IsOperation /\ last.outcome \in {"returned", "TransactionDeclinedError"}) =>
       /\ transactions[last.acct] # <<>>
       /\ transactions[last.acct][Len(transactions[last.acct])] = last.cn[1]
  /\ (IsOperation /\ last.outcome \notin {"returned", "TransactionDeclinedError"}) =>
       last.id \notin SessionIds(last.acct)

(***************************************************************************)
(* C30 - withdraw applies its rules to the amount scaled to 2 digits: a    *)
(* positive amount that scales to 0.00 is declined, an amount above the    *)
(* balance that scales to a value within the balance succeeds and takes    *)
(* the scaled value off, and a successful withdraw never takes more than   *)
(* the balance.                                                            *)
(***************************************************************************)
C30_WithdrawRulesOnScaledAmount ==
  (last.op = "withdraw" /\ last.arg.kind = "num") =>
    /\ (last.arg.mills > 0 /\ ScaledAmount = 0) =>
         /\ last.outcome = "TransactionDeclinedError"
         /\ balance[last.acct] = last.balance_before
    /\ (last.arg.mills > 10 * last.balance_before
          /\ ScaledAmount > 0 /\ ScaledAmount <= last.balance_before) =>
         /\ last.outcome = "returned"
         /\ balance[last.acct] = last.balance_before - ScaledAmount
    /\ last.outcome = "returned" =>
         /\ last.balance_before - balance[last.acct] = ScaledAmount
         /\ last.balance_before - balance[last.acct] <= last.balance_before

\* withdraw(0.205) on a balance of 0.20: the amount is above the balance,
\* scales to 0.20 and empties the account.
C30_Witness ==
  /\ last.op = "withdraw"
  /\ last.arg = Num(205)
  /\ last.balance_before = 20
  /\ last.outcome = "returned"
  /\ balance[last.acct] = 0

====
